---- MODULE Spec2Model ----
(***************************************************************************)
(* Model of upload_with_captions.py: the resumable upload driver           *)
(* (resumable_upload), the caption argument parser                         *)
(* (parse_caption_argument) and the caption step of main.                  *)
(***************************************************************************)
EXTENDS Integers, Sequences, FiniteSets, TLC

(***************************************************************************)
(* Program constants                                                       *)
(***************************************************************************)
\* upload_with_captions.py:34
MAX_RETRIES == 10

\* upload_with_captions.py:41
RETRIABLE_STATUS_CODES == {500, 502, 503, 504}

(***************************************************************************)
(* Bounds of the model                                                     *)
(***************************************************************************)
\* next_chunk may answer "more chunks pending" at most MaxPending times
MaxPending == 2
\* random.random() is k / 2^RandBits for k in 0 .. 2^RandBits - 1
RandBits == 2
\* a planned sequence of next_chunk outcomes has at most MaxPlan entries
MaxPlan == 3
\* a caption argument given to parse_caption_argument has at most MaxLen characters
MaxLen == 5
\* --captions holds at most MaxCaptions arguments
MaxCaptions == 3

(***************************************************************************)
(* Outcomes of one insert_request.next_chunk() call                        *)
(***************************************************************************)
\* HTTP statuses an HttpError may carry (retriable ones and others)
StatusCodes == RETRIABLE_STATUS_CODES \cup {400, 403, 501}

Outcome(k, s) == [kind |-> k, status |-> s]

\* error = None
NoError == Outcome("none", 0)

VARIABLES
  pc,             \* position of resumable_upload
  response,       \* "None", "with_id" or "no_id"
  error,          \* NoError, or the outcome whose message error holds
  retry,          \* retry counter
  sleeps,         \* the time.sleep calls made: <<[retry, max_sleep], ...>>
  sleep_seconds,  \* argument of the last time.sleep, in units of 2^-RandBits s
  calls,          \* number of next_chunk calls made
  pending,        \* number of calls that answered "more chunks pending"
  consec,         \* length of the current run of transiently failed calls
  last,           \* outcome of the last next_chunk call
  plan,           \* outcomes insert_request will give, <<>> when it is free
  mpc,            \* position of main / of the parse_caption_argument call
  captions,       \* args.captions, each a sequence of characters
  files,          \* the paths for which os.path.exists is true
  idx,            \* position of the for loop in args.captions
  cap_arg,        \* the argument being processed
  parsed,         \* result of parse_caption_argument(cap_arg)
  success_count,
  total_count,
  returned,       \* per processed argument: what upload_caption returned
  processed,      \* the arguments processed so far, in order
  summary         \* the "Caption Upload Complete: k/n" line

uvars == <<pc, response, error, retry, sleeps, sleep_seconds, calls, pending,
           consec, last, plan>>

cvars == <<mpc, captions, files, idx, cap_arg, parsed, success_count,
           total_count, returned, processed, summary>>

vars == <<uvars, cvars>>

(***************************************************************************)
(* resumable_upload                                                        *)
(***************************************************************************)
\* mutant: random.uniform(0, 1), whose upper end is included
RandomValuesInclusive == 0 .. (2^RandBits)

\* random.random(): numerators k of k / 2^RandBits, in [0, 1)
RandomValues == 0 .. (2^RandBits - 1)

\* max_sleep = 2 ** retry
max_sleep(r) == 2^r

\* mutant: the test lets one more retry through
ExhaustedLate(r) == r > MAX_RETRIES + 1

\* mutant: the test written with >=, giving up one retry early
ExhaustedEarly(r) == r >= MAX_RETRIES

\* if retry > MAX_RETRIES: exit(...)
Exhausted(r) == r > MAX_RETRIES

\* mutant: every 5xx status is retried
RetriableAny5xx(s) == s >= 500

\* e.resp.status in RETRIABLE_STATUS_CODES
Retriable(s) == s \in RETRIABLE_STATUS_CODES

\* the while test at the end of an iteration that did not exit or raise
LoopTest(resp) == IF resp = "None" THEN "loop" ELSE "returned"

\* the "if error is not None" block closing every iteration that neither
\* raised nor exited inside the try, with err and resp the values of error
\* and response after the try statement
Backoff(err, resp) ==
  IF err = NoError
  THEN /\ pc' = LoopTest(resp)
       /\ UNCHANGED <<retry, sleeps, sleep_seconds>>
  ELSE /\ retry' = retry + 1
       /\ IF Exhausted(retry + 1)
          THEN /\ pc' = "exit_retries"
               /\ UNCHANGED <<sleeps, sleep_seconds>>
          ELSE /\ \E k \in RandomValues :
                    sleep_seconds' = k * max_sleep(retry + 1)
               /\ sleeps' = Append(sleeps, [retry |-> retry + 1,
                                            max_sleep |-> max_sleep(retry + 1)])
               /\ pc' = LoopTest(resp)

\* status, response = insert_request.next_chunk() ends with outcome o: any
\* outcome when insert_request is free, the planned one otherwise
Called(o, transient) ==
  /\ plan = <<>> \/ (calls < Len(plan) /\ plan[calls + 1] = o)
  /\ calls' = calls + 1
  /\ last' = o
  /\ consec' = IF transient THEN consec + 1 ELSE 0
  /\ UNCHANGED <<plan, cvars>>

\* next_chunk returns (status, None): more chunks pending
NextChunkPending ==
  /\ pc = "loop"
  /\ pending < MaxPending
  /\ Called(Outcome("pending", 0), FALSE)
  /\ pending' = pending + 1
  /\ response' = "None"
  /\ Backoff(error, "None")
  /\ UNCHANGED error

\* next_chunk returns a terminal response holding 'id'
NextChunkWithId ==
  /\ pc = "loop"
  /\ Called(Outcome("id", 0), FALSE)
  /\ response' = "with_id"
  /\ Backoff(error, "with_id")
  /\ UNCHANGED <<error, pending>>

\* mutant: the malformed response is only reported, exit(...) is missing
NextChunkWithoutIdNoExit ==
  /\ pc = "loop"
  /\ Called(Outcome("noid", 0), FALSE)
  /\ response' = "no_id"
  /\ Backoff(error, "no_id")
  /\ UNCHANGED <<error, pending>>

\* next_chunk returns a terminal response without 'id': exit(...) in the try
NextChunkWithoutId ==
  /\ pc = "loop"
  /\ Called(Outcome("noid", 0), FALSE)
  /\ response' = "no_id"
  /\ pc' = "exit_unexpected"
  /\ UNCHANGED <<error, pending, retry, sleeps, sleep_seconds>>

\* next_chunk raises HttpError with status s
NextChunkHttpError(s) ==
  /\ pc = "loop"
  /\ IF Retriable(s)
     THEN /\ Called(Outcome("http", s), TRUE)
          /\ error' = Outcome("http", s)
          /\ Backoff(Outcome("http", s), "None")
     ELSE /\ Called(Outcome("http", s), FALSE)
          /\ pc' = "raised"
          /\ UNCHANGED <<error, retry, sleeps, sleep_seconds>>
  /\ UNCHANGED <<response, pending>>

\* next_chunk raises one of RETRIABLE_EXCEPTIONS
NextChunkTransportError ==
  /\ pc = "loop"
  /\ Called(Outcome("transport", 0), TRUE)
  /\ error' = Outcome("transport", 0)
  /\ Backoff(Outcome("transport", 0), "None")
  /\ UNCHANGED <<response, pending>>

\* next_chunk raises any other exception: no handler, it propagates
NextChunkOtherError ==
  /\ pc = "loop"
  /\ Called(Outcome("other", 0), FALSE)
  /\ pc' = "raised"
  /\ UNCHANGED <<response, error, pending, retry, sleeps, sleep_seconds>>

\* state on entry of resumable_upload (lines 114-116)
Entry ==
  /\ pc = "loop"
  /\ response = "None"
  /\ error = NoError
  /\ retry = 0
  /\ sleeps = <<>>
  /\ sleep_seconds = 0
  /\ calls = 0
  /\ pending = 0
  /\ consec = 0
  /\ last = NoError

\* parse_caption_argument's "return None"
None == <<>>

NoSummary == [printed |-> FALSE, k |-> 0, n |-> 0]

\* main has not reached its caption step
BeforeCaptions ==
  /\ mpc = "step1"
  /\ captions = <<>>
  /\ files = {}
  /\ idx = 0
  /\ cap_arg = <<>>
  /\ parsed = None
  /\ success_count = 0
  /\ total_count = 0
  /\ returned = <<>>
  /\ processed = <<>>
  /\ summary = NoSummary

\* insert_request answers freely
Init ==
  /\ Entry
  /\ plan = <<>>
  /\ BeforeCaptions

Next ==
  \/ NextChunkPending
  \/ NextChunkWithId
  \/ NextChunkWithoutId
  \/ \E s \in StatusCodes : NextChunkHttpError(s)
  \/ NextChunkTransportError
  \/ NextChunkOtherError

Spec == Init /\ [][Next]_vars

\* the outcomes next_chunk can end with
Outcomes ==
  {Outcome(k, 0) : k \in {"pending", "id", "noid", "transport", "other"}}
    \cup {Outcome("http", s) : s \in StatusCodes}

RECURSIVE SeqsUpTo(_, _)
SeqsUpTo(S, n) ==
  IF n = 0 THEN {<<>>}
  ELSE LET shorter == SeqsUpTo(S, n - 1)
       IN shorter \cup {Append(q, x) : q \in shorter, x \in S}

\* insert_request answers as planned
InitPlanned ==
  /\ Entry
  /\ plan \in SeqsUpTo(Outcomes, MaxPlan) \ {<<>>}
  /\ BeforeCaptions

SpecPlanned == InitPlanned /\ [][Next]_vars

(***************************************************************************)
(* parse_caption_argument                                                  *)
(***************************************************************************)
\* characters of the modelled arguments: a lowercase letter, an uppercase
\* letter and the separator
Alphabet == {"a", "B", ":"}

\* str.upper(), character by character
UpperChar(c) == IF c = "a" THEN "A" ELSE c

Upper(str) == [i \in 1 .. Len(str) |-> UpperChar(str[i])]

\* index of the first ':' of str, 0 when there is none
Find(str) ==
  IF \E i \in 1 .. Len(str) : str[i] = ":"
  THEN CHOOSE i \in 1 .. Len(str) :
         /\ str[i] = ":"
         /\ \A j \in 1 .. (i - 1) : str[j] # ":"
  ELSE 0

\* mutant: str.split(':'), splitting at every separator
RECURSIVE SplitAll(_, _)
SplitAll(str, maxsplit) ==
  IF Find(str) = 0
  THEN <<str>>
  ELSE <<SubSeq(str, 1, Find(str) - 1)>>
         \o SplitAll(SubSeq(str, Find(str) + 1, Len(str)), maxsplit)

\* str.split(':', maxsplit)
RECURSIVE Split(_, _)
Split(str, maxsplit) ==
  IF maxsplit = 0 \/ Find(str) = 0
  THEN <<str>>
  ELSE <<SubSeq(str, 1, Find(str) - 1)>>
         \o Split(SubSeq(str, Find(str) + 1, Len(str)), maxsplit - 1)

parse_caption_argument(arg) ==
  LET parts == Split(arg, 2)
  IN  IF Len(parts) = 2
      THEN <<parts[1], Upper(parts[1]), parts[2]>>
      ELSE IF Len(parts) = 3
           THEN <<parts[1], parts[2], parts[3]>>
           ELSE None

\* one call parse_caption_argument(cap_arg)
ParseCaptionArgument ==
  /\ mpc = "parse"
  /\ parsed' = parse_caption_argument(cap_arg)
  /\ mpc' = "parsed"
  /\ UNCHANGED <<uvars, captions, files, idx, cap_arg, success_count,
                 total_count, returned, processed, summary>>

\* resumable_upload has returned a response holding 'id'
Uploaded ==
  /\ pc = "returned"
  /\ response = "with_id"
  /\ error = NoError
  /\ retry = 0
  /\ sleeps = <<>>
  /\ sleep_seconds = 0
  /\ calls = 1
  /\ pending = 0
  /\ consec = 0
  /\ last = Outcome("id", 0)
  /\ plan = <<>>

InitParse ==
  /\ Uploaded
  /\ mpc = "parse"
  /\ cap_arg \in SeqsUpTo(Alphabet, MaxLen)
  /\ parsed = None
  /\ captions = <<>>
  /\ files = {}
  /\ idx = 0
  /\ success_count = 0
  /\ total_count = 0
  /\ returned = <<>>
  /\ processed = <<>>
  /\ summary = NoSummary

NextParse == ParseCaptionArgument

SpecParse == InitParse /\ [][NextParse]_vars

(***************************************************************************)
(* main, step 2: uploading the captions                                    *)
(***************************************************************************)
\* ways insert_request.execute() and the calls before it can end
UploadOutcomes == {"ok", "HttpError", "Exception"}

\* mutant: upload_caption of add_sub_to_existing_video.py, which catches
\* HttpError alone
upload_caption_http_only(o) ==
  CASE o = "ok" -> "True"
    [] o = "HttpError" -> "False"
    [] o = "Exception" -> "raise"

\* upload_caption: True after the request succeeded, False from either
\* except clause
upload_caption(o) ==
  CASE o = "ok" -> "True"
    [] o = "HttpError" -> "False"
    [] o = "Exception" -> "False"

\* the arguments --captions may hold: no colon, lang:path for two paths,
\* lang:name:path
CaptionArgs ==
  { <<"a">>, <<"a", ":", "a">>, <<"a", ":", "B">>,
    <<"a", ":", "B", ":", "a">> }

\* the paths os.path.exists may be asked about
Paths == {<<"a">>, <<"B">>}

\* if args.captions: ... else: "No captions specified"
NoCaptions ==
  /\ mpc = "step2"
  /\ captions = <<>>
  /\ mpc' = "done"
  /\ UNCHANGED <<uvars, captions, files, idx, cap_arg, parsed, success_count,
                 total_count, returned, processed, summary>>

\* success_count = 0; total_count = len(args.captions); the for loop starts
BeginCaptions ==
  /\ mpc = "step2"
  /\ captions # <<>>
  /\ success_count' = 0
  /\ total_count' = Len(captions)
  /\ idx' = 1
  /\ mpc' = "for"
  /\ UNCHANGED <<uvars, captions, files, cap_arg, parsed, returned,
                 processed, summary>>

\* the head of one iteration: cap_arg bound, parsed computed
Iteration ==
  /\ mpc = "for"
  /\ idx <= Len(captions)
  /\ cap_arg' = captions[idx]
  /\ parsed' = parse_caption_argument(captions[idx])
  /\ processed' = Append(processed, captions[idx])
  /\ UNCHANGED <<uvars, captions, files, total_count, summary>>

\* if parsed is None: ... continue
CaptionInvalid ==
  /\ Iteration
  /\ parsed' = None
  /\ returned' = Append(returned, "not called")
  /\ idx' = idx + 1
  /\ UNCHANGED <<mpc, success_count>>

\* if not os.path.exists(file_path): ... continue
CaptionFileMissing ==
  /\ Iteration
  /\ parsed' # None
  /\ parsed'[3] \notin files
  /\ returned' = Append(returned, "not called")
  /\ idx' = idx + 1
  /\ UNCHANGED <<mpc, success_count>>

\* if upload_caption(...): success_count += 1, the request ending as o
CaptionUpload(o) ==
  /\ Iteration
  /\ parsed' # None
  /\ parsed'[3] \in files
  /\ returned' = Append(returned, upload_caption(o))
  /\ IF upload_caption(o) = "raise"
     THEN /\ mpc' = "raised"
          /\ UNCHANGED <<idx, success_count>>
     ELSE /\ idx' = idx + 1
          /\ success_count' = IF upload_caption(o) = "True"
                              THEN success_count + 1 ELSE success_count
          /\ UNCHANGED mpc

\* the loop is over: "Caption Upload Complete: k/n successful"
Summary ==
  /\ mpc = "for"
  /\ idx > Len(captions)
  /\ summary' = [printed |-> TRUE, k |-> success_count, n |-> total_count]
  /\ mpc' = "done"
  /\ UNCHANGED <<uvars, captions, files, idx, cap_arg, parsed, success_count,
                 total_count, returned, processed>>

InitCaptions ==
  /\ Uploaded
  /\ mpc = "step2"
  /\ captions \in SeqsUpTo(CaptionArgs, MaxCaptions)
  /\ files \in SUBSET Paths
  /\ idx = 0
  /\ cap_arg = <<>>
  /\ parsed = None
  /\ success_count = 0
  /\ total_count = 0
  /\ returned = <<>>
  /\ processed = <<>>
  /\ summary = NoSummary

NextCaptions ==
  \/ NoCaptions
  \/ BeginCaptions
  \/ CaptionInvalid
  \/ CaptionFileMissing
  \/ \E o \in UploadOutcomes : CaptionUpload(o)
  \/ Summary

\* main runs on, statement after statement, until it ends
SpecCaptions == InitCaptions /\ [][NextCaptions]_vars /\ WF_vars(NextCaptions)

(***************************************************************************)
(* Claims about resumable_upload                                           *)
(***************************************************************************)
Transient(o) ==
  \/ o.kind = "transport"
  \/ o.kind = "http" /\ o.status \in RETRIABLE_STATUS_CODES

\* the step is one loop iteration, i.e. one next_chunk call
Attempt == calls' = calls + 1

\* C1: a terminal response holding 'id' always ends the driver in its
\* successful return, never in the "No longer attempting to retry" exit,
\* however many transient failures came before it.
C1_IdResponseReturns ==
  last.kind = "id" => (pc = "returned" /\ response = "with_id")

Http503 == Outcome("http", 503)

\* C2: for the outcomes [503, 503, response with id] the driver sleeps
\* exactly twice, with caps 2^1 then 2^2, and returns the response; there is
\* no sleep after the successful attempt.
C2_TwoSleepsThenSuccess ==
  (plan = <<Http503, Http503, Outcome("id", 0)>> /\ calls = 3)
    => /\ pc = "returned"
       /\ Len(sleeps) = 2
       /\ sleeps[1].max_sleep = 2^1
       /\ sleeps[2].max_sleep = 2^2
       /\ sleeps[1].max_sleep < sleeps[2].max_sleep

\* C3 as stated: in every run next_chunk is called at most MAX_RETRIES + 1
\* times.
C3_AtMostMaxRetriesPlusOneCalls == calls <= MAX_RETRIES + 1

\* C3 amended: in every run the next_chunk calls that do not answer "more
\* chunks pending" number at most MAX_RETRIES + 1.
C3_AtMostMaxRetriesPlusOneOtherCalls == calls - pending <= MAX_RETRIES + 1

C3_Witness == calls > MAX_RETRIES + 1 /\ calls - pending = MAX_RETRIES + 1

\* C4: MAX_RETRIES + 1 consecutive transient failures end the driver in the
\* "retries exhausted" exit on the last of them; a run of failures that is
\* the upload's only trouble does not end it earlier; and after that exit
\* there is no further next_chunk call and no further sleep.
C4_ExhaustedOnLastFailure ==
  /\ [](consec <= MAX_RETRIES + 1)
  /\ [](consec = MAX_RETRIES + 1 => pc = "exit_retries")
  /\ []((pc = "exit_retries" /\ consec = calls - pending)
          => consec = MAX_RETRIES + 1)
  /\ [][pc = "exit_retries"
          => (pc' = pc /\ calls' = calls /\ sleeps' = sleeps
              /\ retry' = retry)]_vars

C4_Witness ==
  pc = "exit_retries" /\ consec = MAX_RETRIES + 1 /\ pending > 0

\* C5: an HttpError with a retriable status is not propagated, and is
\* followed by another attempt unless the retries are exhausted; an
\* HttpError with any other status is propagated at once, without a sleep,
\* without a change of the retry count and without another attempt.
C5_RetriableStatusOnly ==
  /\ [][(Attempt /\ last'.kind = "http")
          => IF last'.status \in RETRIABLE_STATUS_CODES
             THEN /\ pc' # "raised"
                  /\ error' = last'
                  /\ retry' <= MAX_RETRIES => pc' = "loop"
                  /\ retry' > MAX_RETRIES => pc' = "exit_retries"
             ELSE /\ pc' = "raised"
                  /\ retry' = retry
                  /\ sleeps' = sleeps
                  /\ sleep_seconds' = sleep_seconds]_vars
  /\ [](pc = "loop" => ENABLED (Next /\ Attempt))
  /\ [][pc = "raised" => (pc' = pc /\ calls' = calls /\ sleeps' = sleeps)]_vars

C5_Witness ==
  /\ pc = "raised"
  /\ last.kind = "http"
  /\ last.status \notin RETRIABLE_STATUS_CODES
  /\ error.kind = "http"
  /\ retry > 0

\* C6: a terminal response without 'id' ends the driver in the fatal exit on
\* that attempt, with no sleep and no change of the retry count on it and no
\* attempt after it, whatever happened before.
C6_MalformedResponseIsFatal ==
  /\ [][(Attempt /\ last'.kind = "noid")
          => /\ pc' = "exit_unexpected"
             /\ retry' = retry
             /\ sleeps' = sleeps
             /\ sleep_seconds' = sleep_seconds]_vars
  /\ [][pc = "exit_unexpected"
          => (pc' = pc /\ calls' = calls /\ sleeps' = sleeps)]_vars

C6_Witness ==
  pc = "exit_unexpected" /\ last.kind = "noid" /\ retry > 0 /\ error # NoError

\* C7: every sleep is computed from a retry count r in 1 .. MAX_RETRIES, with
\* cap 2^r, and lasts at least 0 and less than 2^r seconds.
C7_SleepBelowCap ==
  /\ \A i \in 1 .. Len(sleeps) :
       /\ sleeps[i].retry \in 1 .. MAX_RETRIES
       /\ sleeps[i].max_sleep = 2^(sleeps[i].retry)
  /\ sleeps # <<>>
       => /\ 0 <= sleep_seconds
          /\ sleep_seconds < (2^(sleeps[Len(sleeps)].retry)) * (2^RandBits)

C7_Witness ==
  /\ sleeps # <<>>
  /\ sleeps[Len(sleeps)].retry = MAX_RETRIES
  /\ sleep_seconds = (2^RandBits - 1) * (2^MAX_RETRIES)

\* C10: an iteration whose next_chunk call succeeded (more chunks pending,
\* or a terminal response) leaves the retry count alone and does not sleep;
\* the count is never reset and grows only when the call failed transiently.
C10_RetryOnlyOnOwnFailure ==
  [][/\ retry' >= retry
     /\ (Attempt /\ ~Transient(last')) => (retry' = retry /\ sleeps' = sleeps)
    ]_vars

(***************************************************************************)
(* Claim about main's caption step                                         *)
(***************************************************************************)
\* the arguments that parse, whose file exists and whose upload returned True
Successful ==
  {i \in 1 .. Len(returned) :
     /\ parse_caption_argument(captions[i]) # None
     /\ parse_caption_argument(captions[i])[3] \in files
     /\ returned[i] = "True"}

CaptionsInv ==
  /\ mpc # "raised"
  /\ Len(processed) <= Len(captions)
  /\ processed = SubSeq(captions, 1, Len(processed))
  /\ Len(returned) = Len(processed)
  /\ \A i \in 1 .. Len(returned) :
       returned[i] # "not called"
         <=> /\ parse_caption_argument(captions[i]) # None
             /\ parse_caption_argument(captions[i])[3] \in files
  /\ summary.printed
       => /\ processed = captions
          /\ summary.n = Len(captions)
          /\ summary.k = Cardinality(Successful)
  /\ (mpc = "done" /\ captions # <<>>) => summary.printed

\* C8: every caption argument is processed exactly once, in order, whatever
\* happened to the earlier ones; a batch of n >= 1 arguments always reaches
\* the summary, which reports k/n with n the number of arguments and k the
\* number that parsed, whose file exists and whose upload returned True.
C8_BatchSummary ==
  /\ []CaptionsInv
  /\ (captions # <<>>) ~> summary.printed

C8_Witness ==
  /\ summary.printed
  /\ summary.n = 3
  /\ summary.k = 2
  /\ \E i \in 1 .. 3 :
       /\ parse_caption_argument(captions[i]) # None
       /\ parse_caption_argument(captions[i])[3] \notin files

(***************************************************************************)
(* Claim about parse_caption_argument                                      *)
(***************************************************************************)
Colons(str) == {i \in 1 .. Len(str) : str[i] = ":"}

\* the n-th smallest element of a set of numbers
NthColon(str, n) ==
  CHOOSE i \in Colons(str) : Cardinality({j \in Colons(str) : j < i}) = n - 1

====
